---- MODULE Spec2Model ----
(***************************************************************************)
(* Model of scripts/upload_model_preds_to_figshare.py: the engine that     *)
(* walks each model's metadata tree for "*_file" leaves, reconciles them   *)
(* with the files of a Figshare article and writes "*_url" locators back.  *)
(*                                                                         *)
(* Python strings that the code takes apart (keys, key-paths, file paths)  *)
(* are sequences of one-character strings, so that endswith, split, join   *)
(* and removeprefix are computed as the code computes them.  Python dicts  *)
(* are sequences of [key, val] entries with unique keys (insertion order). *)
(***************************************************************************)
EXTENDS Integers, Sequences, FiniteSets, TLC

None == "None"

----------------------------------------------------------------------------
(* String literals of the source, as character sequences *)
DOT        == <<".">>
SLASH      == <<"/">>
FILE_SUFFIX == <<"_","f","i","l","e">>
URL_SUFFIX == <<"_","u","r","l">>
FT_all      == <<"a","l","l">>
FT_pred     == <<"p","r","e","d">>
FT_analysis == <<"a","n","a","l","y","s","i","s">>
FileTypes   == {FT_all, FT_analysis, FT_pred}
ROOT        == <<"/","r">>

(* str.endswith *)
EndsWith(s, suf) ==
    /\ Len(s) >= Len(suf)
    /\ SubSeq(s, Len(s) - Len(suf) + 1, Len(s)) = suf

(* str.startswith *)
StartsWith(s, pre) ==
    /\ Len(s) >= Len(pre)
    /\ SubSeq(s, 1, Len(pre)) = pre

(* str.removeprefix *)
RemovePrefix(s, pre) ==
    IF StartsWith(s, pre) THEN SubSeq(s, Len(pre) + 1, Len(s)) ELSE s

(* str.split(".") : the list of the maximal dot-free pieces *)
RECURSIVE SplitFrom(_, _, _)
SplitFrom(s, i, cur) ==
    IF i > Len(s) THEN <<cur>>
    ELSE IF s[i] = "." THEN <<cur>> \o SplitFrom(s, i + 1, <<>>)
    ELSE SplitFrom(s, i + 1, Append(cur, s[i]))

Split(s) == SplitFrom(s, 1, <<>>)

----------------------------------------------------------------------------
(* Values of a metadata tree: a string leaf, a non-string scalar or a dict *)
Str(s)  == [t |-> "str",  s |-> s,    d |-> <<>>]
Num     == [t |-> "num",  s |-> <<>>, d |-> <<>>]
Dict(d) == [t |-> "dict", s |-> <<>>, d |-> d]
E(k, v) == [key |-> k, val |-> v]

(* dict helpers: key in d, d[key], d[key] = v *)
DictKeys(d) == {d[i].key : i \in 1..Len(d)}
HasKey(d, k) == k \in DictKeys(d)
DictGet(d, k) == d[CHOOSE i \in 1..Len(d) : d[i].key = k].val
DictSet(d, k, v) ==
    IF HasKey(d, k)
    THEN [i \in 1..Len(d) |-> IF d[i].key = k THEN E(k, v) ELSE d[i]]
    ELSE Append(d, E(k, v))

(* dict |= other *)
RECURSIVE DictUpdate(_, _)
DictUpdate(d, other) ==
    IF other = <<>> THEN d
    ELSE DictUpdate(DictSet(d, Head(other).key, Head(other).val), Tail(other))

----------------------------------------------------------------------------
(* should_process_file: filter files by type *)
should_process_file(key, file_type) ==
    file_type = FT_all \/ EndsWith(key, file_type \o FILE_SUFFIX)

(* the test of lines 169-173 on one leaf *)
IsFileLeaf_anyKey(key, value, file_type) ==
    /\ value.t = "str"
    /\ should_process_file(key, file_type)
IsFileLeaf(key, value, file_type) ==
    /\ value.t = "str"
    /\ EndsWith(key, FILE_SUFFIX)
    /\ should_process_file(key, file_type)

(* find_file_keys: depth-first walk, dotted key-path -> relative path *)
RECURSIVE find_file_keys(_, _, _)
find_file_keys(data, prefix, file_type) ==
    IF data = <<>> THEN <<>>
    ELSE
      LET key      == Head(data).key
          value    == Head(data).val
          full_key == IF prefix # <<>> THEN prefix \o DOT \o key ELSE key
          here     == IF value.t = "dict"
                      THEN find_file_keys(value.d, full_key, file_type)
                      ELSE IF IsFileLeaf(key, value, file_type)
                      THEN <<E(full_key, value.s)>>
                      ELSE <<>>
      IN DictUpdate(here, find_file_keys(Tail(data), prefix, file_type))


(* the parent of a dotted key-path is reached by target = target[part]    *)
(* for every part; the last step assigns target[k] = v.  A missing part   *)
(* (KeyError) or a part that is not a dict (TypeError) raises.            *)
RECURSIVE SetAt(_, _, _, _)
SetAt(d, parts, k, v) ==
    IF parts = <<>> THEN [ok |-> TRUE, d |-> DictSet(d, k, v)]
    ELSE IF ~HasKey(d, Head(parts)) THEN [ok |-> FALSE, d |-> d]
    ELSE LET sub == DictGet(d, Head(parts)) IN
         IF sub.t # "dict" THEN [ok |-> FALSE, d |-> d]
         ELSE LET r == SetAt(sub.d, Tail(parts), k, v) IN
              [ok |-> r.ok, d |-> DictSet(d, Head(parts), Dict(r.d))]

Front(s) == SubSeq(s, 1, Len(s) - 1)
Last(s)  == s[Len(s)]

(* str(int) of a non-negative integer *)
Digit(n) == <<"0","1","2","3","4","5","6","7","8","9">>[n + 1]
RECURSIVE IntToStr(_)
IntToStr(n) == IF n < 10 THEN <<Digit(n)>> ELSE IntToStr(n \div 10) \o <<Digit(n % 10)>>

DOWNLOAD_URL_PREFIX == <<"d","l">>
(* f"{figshare.DOWNLOAD_URL_PREFIX}/{file_id}" *)
DownloadUrl(file_id) == DOWNLOAD_URL_PREFIX \o SLASH \o IntToStr(file_id)

(* lines 199-206: backfill of the locator on the skip path *)
UrlKeyPresent(metric_data, key_path) == HasKey(metric_data, key_path \o URL_SUFFIX)

BackfillLocator(metric_data, key_path, file_url) ==
    IF UrlKeyPresent(metric_data, key_path)
    THEN [ok |-> TRUE, d |-> metric_data]
    ELSE LET pieces == Split(key_path \o URL_SUFFIX) IN
         SetAt(metric_data, Front(pieces), Last(pieces), Str(file_url))

(* lines 225-230: the locator is set after an upload *)
SetLocator_topLevel(metric_data, key_path, file_url) ==
    [ok |-> TRUE, d |-> DictSet(metric_data, key_path \o URL_SUFFIX, Str(file_url))]
SetLocator(metric_data, key_path, file_url) ==
    LET pieces == Split(key_path) IN
    SetAt(metric_data, Front(pieces), Last(pieces) \o URL_SUFFIX, Str(file_url))

(* the value stored in the locator slot of a key-path, Absent when absent *)
Absent == [t |-> "absent", s |-> <<>>, d |-> <<>>]

RECURSIVE Lookup(_, _)
Lookup(d, parts) ==
    IF ~HasKey(d, Head(parts)) THEN Absent
    ELSE LET sub == DictGet(d, Head(parts)) IN
         IF Len(parts) = 1 THEN sub
         ELSE IF sub.t # "dict" THEN Absent
         ELSE Lookup(sub.d, Tail(parts))

LocatorSlot(metric_data, key_path) ==
    LET pieces == Split(key_path) IN
    Lookup(metric_data, Append(Front(pieces), Last(pieces) \o URL_SUFFIX))

----------------------------------------------------------------------------
(* The remote repository (matbench_discovery.remote.figshare).  An article *)
(* is a set of RemoteFile records [name, id, hash]; remote maps the ids of *)
(* the articles that exist to their files.                                  *)
RemoteFile(name, id, hash) == [name |-> name, id |-> id, hash |-> hash]

article_exists(rem, article_id) == article_id \in DOMAIN rem

FilesOf(rem, article_id) ==
    IF article_id \in DOMAIN rem THEN rem[article_id] ELSE {}

get_existing_files(rem, article_id) == FilesOf(rem, article_id)

NameIn(filename, files) == \E f \in files : f.name = filename

file_exists_with_same_hash(rem, article_id, filename, file_hash) ==
    LET hits == {f \in FilesOf(rem, article_id) :
                    f.name = filename /\ f.hash = file_hash}
    IN IF hits = {} THEN [exists |-> FALSE, file_id |-> 0]
       ELSE [exists |-> TRUE, file_id |-> (CHOOSE f \in hits : TRUE).id]

(* the files of the article after an upload under filename: a file of     *)
(* that name is replaced in place, the new file gets a fresh id           *)
ReplaceFile_append(files, filename, new_id, file_hash) ==
    files \cup {RemoteFile(filename, new_id, file_hash)}
ReplaceFile(files, filename, new_id, file_hash) ==
    {f \in files : f.name # filename} \cup {RemoteFile(filename, new_id, file_hash)}

upload_file_if_needed(rem, article_id, filename, file_hash, force_reupload, new_id) ==
    LET m == file_exists_with_same_hash(rem, article_id, filename, file_hash) IN
    IF ~force_reupload /\ m.exists
    THEN [file_id |-> m.file_id, was_uploaded |-> FALSE, remote |-> rem]
    ELSE [file_id |-> new_id, was_uploaded |-> TRUE,
          remote |-> [rem EXCEPT ![article_id] =
                         ReplaceFile(rem[article_id], filename, new_id, file_hash)]]

create_article(rem, new_id) == (new_id :> {}) @@ rem

----------------------------------------------------------------------------
(* Bounds of the model *)
MaxRuns == 2

Models == {"m1", "m2"}
Tasks  == {"t1", "t2"}

(* keys, relative paths and a locator written by an earlier hand *)
K_pred_file     == <<"p","r","e","d","_","f","i","l","e">>
K_analysis_file == <<"a","n","a","l","y","s","i","s","_","f","i","l","e">>
K_cif_file      == <<"c","i","f","_","f","i","l","e">>
K_file          == <<"f","i","l","e">>
K_note          == <<"n","o","t","e">>
K_geo           == <<"g","e","o">>
P_a             == <<"a">>
P_b             == <<"b">>
OldUrl          == <<"o","l","d">>

(* metric_data trees the model documents are drawn from *)
T_empty      == <<>>
T_flat       == <<E(K_pred_file, Str(P_a))>>
T_flat_url   == <<E(K_pred_file, Str(P_a)), E(K_pred_file \o URL_SUFFIX, Str(OldUrl))>>
T_nested     == <<E(K_geo, Dict(<<E(K_pred_file, Str(P_a))>>))>>
T_nested_url == <<E(K_geo, Dict(<<E(K_pred_file, Str(P_a)),
                                  E(K_pred_file \o URL_SUFFIX, Str(OldUrl))>>))>>
T_dup        == <<E(K_pred_file, Str(P_a)), E(K_analysis_file, Str(P_a))>>
T_mixed      == <<E(K_note, Str(P_a)), E(K_file, Str(P_a)),
                  E(K_geo, Dict(<<E(K_pred_file, Str(P_a))>>)),
                  E(K_cif_file, Str(P_b)), E(K_analysis_file, Num)>>
T_b          == <<E(K_pred_file, Str(P_b))>>
T_two        == <<E(K_pred_file, Str(P_b)), E(K_cif_file, Str(P_a))>>
(* trees whose locator key of pred_file holds a mapping with a file leaf *)
T_leaf_map   == <<E(K_pred_file, Str(P_a)),
                  E(K_pred_file \o URL_SUFFIX, Dict(<<E(K_cif_file, Str(P_b))>>))>>
T_map_leaf   == <<E(K_pred_file \o URL_SUFFIX, Dict(<<E(K_cif_file, Str(P_b))>>)),
                  E(K_pred_file, Str(P_a))>>

(* a model's YAML document: exists on disk or not; metrics maps a task to *)
(* its section, Absent when the task has none                             *)
Doc(exists, m1, m2) == [exists |-> exists, metrics |-> [t \in Tasks |-> IF t = "t1" THEN m1 ELSE m2]]

Disk(d1, d2) == [m \in Models |-> IF m = "m1" THEN d1 ELSE d2]

(* the documents of m1 and m2 at the start; m1 also has a section for t2 *)
DiskChoices ==
    { Disk(Doc(TRUE, Dict(T_flat_url),   Dict(T_b)), Doc(TRUE, Dict(T_flat), Absent)),
      Disk(Doc(TRUE, Dict(T_nested_url), Dict(T_b)), Doc(TRUE, Dict(T_b), Absent)),
      Disk(Doc(TRUE, Dict(T_dup),        Dict(T_b)), Doc(FALSE, Absent, Absent)),
      Disk(Doc(TRUE, Dict(T_mixed),      Dict(T_b)), Doc(TRUE, Str(P_a), Absent)),
      Disk(Doc(TRUE, Dict(T_empty),      Dict(T_b)), Doc(TRUE, Dict(T_flat), Absent)),
      Disk(Doc(TRUE, Dict(T_nested),     Dict(T_b)), Doc(TRUE, Dict(T_two), Absent)),
      Disk(Doc(TRUE, Dict(T_flat),       Dict(T_b)), Doc(TRUE, Dict(T_flat), Absent)),
      Disk(Doc(TRUE, Dict(T_leaf_map),   Dict(T_b)), Doc(TRUE, Dict(T_b), Absent)),
      Disk(Doc(TRUE, Dict(T_map_leaf),   Dict(T_b)), Doc(TRUE, Dict(T_b), Absent)) }

(* isinstance(metric_data, dict), line 158 *)
IsMapping_any(value) == TRUE
IsMapping(value) == value.t = "dict"

(* metrics.get(task, {}) of lines 156-157 *)
MetricData(doc, task) ==
    IF doc.metrics[task].t = "absent" THEN Dict(<<>>) ELSE doc.metrics[task]

(* f"{ROOT}/{rel_file_path}" and file_path.removeprefix(f"{ROOT}/") *)
FilePath(rel_file_path) == ROOT \o SLASH \o rel_file_path
FileName(file_path) == RemovePrefix(file_path, ROOT \o SLASH)

(* option values: <<>> is Python's None, <<x>> is x *)
Nothing == <<>>
Some(x) == <<x>>

VARIABLES
    disk,           \* model -> persisted YAML document
    fs,             \* absolute path of each local artifact -> content hash
    ARTICLE_IDS,    \* task -> registered article id, Nothing when not registered
    remote,         \* article id -> set of RemoteFile
    nextId,         \* the next id the remote hands out
    runs,           \* runs of main started so far
    pc,             \* position of main / update_one_modeling_task_article
    args,           \* parsed_args of the current run
    taskIdx,        \* position in tasks_to_update
    article_id,
    existing_files,
    skipped_files, updated_files, new_files,
    modelIdx,       \* position in models
    model_data,     \* the loaded document of the current model
    fileKeys,       \* find_file_keys(metric_data).items()
    keyIdx,         \* position in fileKeys
    exc,            \* the propagated exception: kind, where raised, attached note
    calls,          \* (history) operations of the current run
    outcomes,       \* (history) what each artifact of the current run ended as
    remote0, disk0, \* (history) remote and disk at the start of the current run
    prev            \* (history) summary of the previous run

vars == <<disk, fs, ARTICLE_IDS, remote, nextId, runs, pc, args, taskIdx,
          article_id, existing_files, skipped_files, updated_files, new_files,
          modelIdx, model_data, fileKeys, keyIdx, exc, calls, outcomes,
          remote0, disk0, prev>>

static   == <<fs, ARTICLE_IDS>>
buckets  == <<skipped_files, updated_files, new_files>>
history  == <<remote0, disk0, prev>>

EmptyMap == [x \in {} |-> x]
NoExc    == [kind |-> "none", at |-> "none", task |-> Nothing, model_name |-> Nothing,
             models_to_update |-> Nothing, tasks_to_update |-> Nothing]
NoDoc    == Doc(FALSE, Absent, Absent)

(* parsed_args: the selection of models, tasks and file type is the same  *)
(* for every run of a behaviour, the two flags are chosen anew per run    *)
Args(dry_run, force_reupload, file_type, models, tasks) ==
    [dry_run |-> dry_run, force_reupload |-> force_reupload,
     file_type |-> file_type, models |-> models, tasks |-> tasks]

ArgChoices ==
    { Args(TRUE, FALSE, FT_all,      <<"m1", "m2">>, <<"t1", "t2">>),
      Args(TRUE, FALSE, FT_pred,     <<"m2", "m1">>, <<"t1">>),
      Args(TRUE, FALSE, FT_analysis, <<"m1">>,       <<"t2", "t1">>) }

(* local artifacts: every file has content hash 1; a stale remote copy has 0 *)
FsChoices == { [p \in {FilePath(r) : r \in R} |-> 1] : R \in {{P_a, P_b}, {P_b}} }

(* the remote at the start: article 1 is the one registered for t1, 2 for t2 *)
Catalog(a) == [t \in Tasks |-> IF t = "t1" THEN a ELSE Some(2)]

RemoteChoices ==
    { [ids |-> Catalog(Nothing), remote |-> (2 :> {})],
      [ids |-> Catalog(Some(1)), remote |-> (2 :> {})],
      [ids |-> Catalog(Some(1)), remote |-> (1 :> {}) @@ (2 :> {})],
      [ids |-> Catalog(Some(1)), remote |-> (1 :> {RemoteFile(P_a, 11, 1)}) @@ (2 :> {})],
      [ids |-> Catalog(Some(1)), remote |-> (1 :> {RemoteFile(P_a, 11, 0)}) @@ (2 :> {})] }

Init ==
    /\ disk \in DiskChoices
    /\ fs \in FsChoices
    /\ \E c \in RemoteChoices : ARTICLE_IDS = c.ids /\ remote = c.remote
    /\ nextId = 20
    /\ runs = 0
    /\ pc = "idle"
    /\ args \in ArgChoices
    /\ taskIdx = 1
    /\ article_id = Nothing
    /\ existing_files = {}
    /\ skipped_files = EmptyMap /\ updated_files = EmptyMap /\ new_files = EmptyMap
    /\ modelIdx = 1
    /\ model_data = NoDoc
    /\ fileKeys = <<>>
    /\ keyIdx = 1
    /\ exc = NoExc
    /\ calls = {}
    /\ outcomes = {}
    /\ remote0 = remote /\ disk0 = disk
    /\ prev = [ok |-> FALSE, args |-> args, uploads |-> FALSE]

----------------------------------------------------------------------------
(* history records *)
Call(op, task, model, key, changed) ==
    [op |-> op, task |-> task, model |-> model, key |-> key, changed |-> changed]
Outcome(task, model, key, name, bucket) ==
    [task |-> task, model |-> model, key |-> key, name |-> name, bucket |-> bucket]

CurTask  == args.tasks[taskIdx]
CurModel == args.models[modelIdx]

(* the guards of lines 119, 189, 211 and 233 *)
CreateGuard_always(dry_run) == TRUE
CreateGuard(dry_run) == ~dry_run
SkipGuard_never(force_reupload, dry_run) == FALSE
SkipGuard_forceOnly(force_reupload, dry_run) == force_reupload /\ ~dry_run
SkipGuard_ignoreForce(force_reupload, dry_run) == ~dry_run
SkipGuard(force_reupload, dry_run) == ~force_reupload /\ ~dry_run
UploadGuard(dry_run) == ~dry_run
SaveGuard_always(dry_run) == TRUE
SaveGuard_never(dry_run) == FALSE
SaveGuard(dry_run) == ~dry_run

(* os.path.isfile of the local artifact, line 179 *)
isfile(fsys, file_path) == file_path \in DOMAIN fsys

(* the continue of line 184: on to the next discovered artifact *)
Continue_break(idx, keys) == Len(keys) + 1
Continue(idx, keys) == idx + 1

(* line 220: filename in existing_files *)
IsUpdate_never(filename, listing) == FALSE
IsUpdate(filename, listing) == NameIn(filename, listing)

(* placeholder article id of a dry run, line 121 *)
DryRunArticleId == 0

(* lines 283-287: state = {key: locals().get(key) for key in (...)}.  With *)
(* an inlined comprehension (Python 3.12+) locals() is main's frame; before*)
(* that it is the comprehension's own frame.  main has no model_name.      *)
ExcNote(kind, inlined) ==
    [kind |-> kind, at |-> pc,
     task |-> IF inlined THEN Some(CurTask) ELSE Nothing,
     model_name |-> Nothing,
     models_to_update |-> IF inlined THEN Some(args.models) ELSE Nothing,
     tasks_to_update |-> IF inlined THEN Some(args.tasks) ELSE Nothing]

(* main, lines 262-273: parse the arguments and enter the task loop *)
StartRun ==
    /\ pc \in {"idle", "done", "raised"}
    /\ runs < MaxRuns
    /\ \E dry_run, force_reupload \in BOOLEAN :
          args' = [args EXCEPT !.dry_run = dry_run, !.force_reupload = force_reupload]
    /\ runs' = runs + 1
    /\ pc' = "resolve"
    /\ taskIdx' = 1
    /\ article_id' = Nothing
    /\ existing_files' = {}
    /\ skipped_files' = EmptyMap /\ updated_files' = EmptyMap /\ new_files' = EmptyMap
    /\ modelIdx' = 1
    /\ model_data' = NoDoc
    /\ fileKeys' = <<>>
    /\ keyIdx' = 1
    /\ exc' = NoExc
    /\ calls' = {}
    /\ outcomes' = {}
    /\ remote0' = remote /\ disk0' = disk
    /\ prev' = [ok |-> pc = "done", args |-> args,
                uploads |-> \E c \in calls : c.op = "upload_file_if_needed"]
    /\ UNCHANGED <<disk, fs, ARTICLE_IDS, remote, nextId>>

(* lines 108-116: look the registered article up *)
ResolveArticle ==
    /\ pc = "resolve"
    /\ taskIdx <= Len(args.tasks)
    /\ LET reg == ARTICLE_IDS[CurTask] IN
       /\ article_id' = IF reg # Nothing /\ article_exists(remote, reg[1])
                        THEN reg ELSE Nothing
       /\ calls' = IF reg # Nothing
                   THEN calls \cup {Call("article_exists", CurTask, None, <<>>, FALSE)}
                   ELSE calls
    /\ pc' = "ensure"
    /\ UNCHANGED <<disk, static, remote, nextId, runs, args, taskIdx, existing_files,
                   buckets, modelIdx, model_data, fileKeys, keyIdx, exc, outcomes, history>>

(* lines 118-128: create the article, or take the placeholder in a dry run *)
EnsureArticle ==
    /\ pc = "ensure"
    /\ IF article_id # Nothing
       THEN UNCHANGED <<article_id, remote, nextId, calls>>
       ELSE IF CreateGuard(args.dry_run)
       THEN /\ remote' = create_article(remote, nextId)
            /\ article_id' = Some(nextId)
            /\ nextId' = nextId + 1
            /\ calls' = calls \cup {Call("create_article", CurTask, None, <<>>, TRUE)}
       ELSE /\ article_id' = Some(DryRunArticleId)
            /\ UNCHANGED <<remote, nextId, calls>>
    /\ pc' = "list"
    /\ UNCHANGED <<disk, static, runs, args, taskIdx, existing_files,
                   buckets, modelIdx, model_data, fileKeys, keyIdx, exc, outcomes, history>>

(* lines 130-144: list the article's files once, start with empty buckets *)
ListFiles ==
    /\ pc = "list"
    /\ existing_files' = get_existing_files(remote, article_id[1])
    /\ skipped_files' = EmptyMap /\ updated_files' = EmptyMap /\ new_files' = EmptyMap
    /\ calls' = calls \cup {Call("get_existing_files", CurTask, None, <<>>, FALSE)}
    /\ modelIdx' = 1
    /\ pc' = "model"
    /\ UNCHANGED <<disk, static, remote, nextId, runs, args, taskIdx, article_id,
                   model_data, fileKeys, keyIdx, exc, outcomes, history>>

(* lines 146-175: next model; load its document and walk its task section *)
NextModel ==
    /\ pc = "model"
    /\ modelIdx <= Len(args.models)
    /\ IF ~disk[CurModel].exists
       THEN /\ modelIdx' = modelIdx + 1
            /\ UNCHANGED <<pc, model_data, fileKeys, keyIdx>>
       ELSE /\ model_data' = disk[CurModel]
            /\ LET metric_data == MetricData(disk[CurModel], CurTask) IN
               IF ~IsMapping(metric_data)
               THEN /\ modelIdx' = modelIdx + 1
                    /\ UNCHANGED <<pc, fileKeys, keyIdx>>
               ELSE /\ fileKeys' = find_file_keys(metric_data.d, <<>>, args.file_type)
                    /\ keyIdx' = 1
                    /\ pc' = "file"
                    /\ UNCHANGED modelIdx
    /\ UNCHANGED <<disk, static, remote, nextId, runs, args, taskIdx, article_id,
                   existing_files, buckets, exc, calls, outcomes, history>>

(* dict[key] = value on one of the three outcome buckets *)
Put(bucket, filename, file_url) == (filename :> file_url) @@ bucket

(* the in-memory document after metric_data of the current task was mutated *)
WithMetricData(doc, task, d) == [doc EXCEPT !.metrics[task] = Dict(d)]

(* lines 177-230: one iteration of the loop over the discovered artifacts *)
ProcessFile ==
    /\ pc = "file"
    /\ keyIdx <= Len(fileKeys)
    /\ LET key_path    == fileKeys[keyIdx].key
           file_path   == FilePath(fileKeys[keyIdx].val)
           filename    == FileName(file_path)
           metric_data == MetricData(model_data, CurTask).d
           Log(b)      == outcomes \cup {Outcome(CurTask, CurModel, key_path, filename, b)}
           MatchCall   == Call("file_exists_with_same_hash", CurTask, CurModel, key_path, FALSE)
           UploadCall  == Call("upload_file_if_needed", CurTask, CurModel, key_path, TRUE)
       IN
       IF ~isfile(fs, file_path)
       THEN \* lines 179-184: warn and continue
            /\ keyIdx' = Continue(keyIdx, fileKeys)
            /\ outcomes' = Log("missing")
            /\ UNCHANGED <<pc, remote, nextId, buckets, model_data, exc, calls>>
       ELSE
         LET file_hash == fs[file_path]
             checked   == SkipGuard(args.force_reupload, args.dry_run)
             match     == file_exists_with_same_hash(remote, article_id[1], filename, file_hash)
         IN
         IF checked /\ match.exists
         THEN \* lines 195-208: same hash on the remote, skip
              LET file_url == DownloadUrl(match.file_id)
                  r        == BackfillLocator(metric_data, key_path, file_url)
              IN
              /\ skipped_files' = Put(skipped_files, filename, file_url)
              /\ calls' = calls \cup {MatchCall}
              /\ outcomes' = Log("skipped")
              /\ UNCHANGED <<remote, nextId, updated_files, new_files>>
              /\ IF r.ok
                 THEN /\ model_data' = WithMetricData(model_data, CurTask, r.d)
                      /\ keyIdx' = keyIdx + 1
                      /\ UNCHANGED <<pc, exc>>
                 ELSE /\ pc' = "raised"
                      /\ \E inlined \in BOOLEAN : exc' = ExcNote("TypeError", inlined)
                      /\ UNCHANGED <<model_data, keyIdx>>
         ELSE IF UploadGuard(args.dry_run)
         THEN \* lines 211-230: upload, classify, set the locator
              LET u        == upload_file_if_needed(remote, article_id[1], filename,
                                                    file_hash, args.force_reupload, nextId)
                  file_url == DownloadUrl(u.file_id)
                  r        == SetLocator(metric_data, key_path, file_url)
                  updated  == IsUpdate(filename, existing_files)
              IN
              /\ remote' = u.remote
              /\ nextId' = IF u.was_uploaded THEN nextId + 1 ELSE nextId
              /\ updated_files' = IF updated THEN Put(updated_files, filename, file_url)
                                  ELSE updated_files
              /\ new_files' = IF updated THEN new_files
                              ELSE Put(new_files, filename, file_url)
              /\ calls' = calls \cup {UploadCall} \cup (IF checked THEN {MatchCall} ELSE {})
              /\ outcomes' = Log(IF updated THEN "updated" ELSE "created")
              /\ UNCHANGED skipped_files
              /\ IF r.ok
                 THEN /\ model_data' = WithMetricData(model_data, CurTask, r.d)
                      /\ keyIdx' = keyIdx + 1
                      /\ UNCHANGED <<pc, exc>>
                 ELSE /\ pc' = "raised"
                      /\ \E inlined \in BOOLEAN : exc' = ExcNote("TypeError", inlined)
                      /\ UNCHANGED <<model_data, keyIdx>>
         ELSE \* dry run: nothing is done for the artifact
              /\ keyIdx' = keyIdx + 1
              /\ outcomes' = Log("none")
              /\ UNCHANGED <<pc, remote, nextId, buckets, model_data, exc, calls>>
    /\ UNCHANGED <<disk, static, runs, args, taskIdx, article_id, existing_files,
                   modelIdx, fileKeys, history>>

(* lines 232-235: save the model's document *)
SaveModel ==
    /\ pc = "file"
    /\ keyIdx > Len(fileKeys)
    /\ IF SaveGuard(args.dry_run)
       THEN /\ disk' = [disk EXCEPT ![CurModel] = model_data]
            /\ calls' = calls \cup {Call("write", CurTask, CurModel, <<>>,
                                         model_data # disk[CurModel])}
       ELSE UNCHANGED <<disk, calls>>
    /\ modelIdx' = modelIdx + 1
    /\ pc' = "model"
    /\ UNCHANGED <<static, remote, nextId, runs, args, taskIdx, article_id, existing_files,
                   buckets, model_data, fileKeys, keyIdx, exc, outcomes, history>>

(* lines 237-257 and the next iteration of line 273: report, next task *)
EndTask ==
    /\ pc = "model"
    /\ modelIdx > Len(args.models)
    /\ taskIdx' = taskIdx + 1
    /\ pc' = "resolve"
    /\ UNCHANGED <<disk, static, remote, nextId, runs, args, article_id, existing_files,
                   buckets, modelIdx, model_data, fileKeys, keyIdx, exc, calls, outcomes,
                   history>>

(* line 290: return 0 *)
MainReturn ==
    /\ pc = "resolve"
    /\ taskIdx > Len(args.tasks)
    /\ pc' = "done"
    /\ UNCHANGED <<disk, static, remote, nextId, runs, args, taskIdx, article_id,
                   existing_files, buckets, modelIdx, model_data, fileKeys, keyIdx, exc,
                   calls, outcomes, history>>

(* a remote call is about to be made at the current position *)
RemoteCallPending ==
    \/ pc = "resolve" /\ taskIdx <= Len(args.tasks) /\ ARTICLE_IDS[CurTask] # Nothing
    \/ pc = "ensure" /\ article_id = Nothing /\ CreateGuard(args.dry_run)
    \/ pc = "list"
    \/ /\ pc = "file" /\ keyIdx <= Len(fileKeys)
       /\ isfile(fs, FilePath(fileKeys[keyIdx].val))
       /\ (SkipGuard(args.force_reupload, args.dry_run) \/ UploadGuard(args.dry_run))

(* lines 282-288: the remote call raises; main attaches the note and      *)
(* re-raises.  A failed call changes nothing on the remote.               *)
RemoteCallFails ==
    /\ RemoteCallPending
    /\ pc' = "raised"
    /\ \E inlined \in BOOLEAN : exc' = ExcNote("TransportError", inlined)
    /\ UNCHANGED <<disk, static, remote, nextId, runs, args, taskIdx, article_id,
                   existing_files, buckets, modelIdx, model_data, fileKeys, keyIdx,
                   calls, outcomes, history>>

Next ==
    \/ StartRun
    \/ ResolveArticle
    \/ EnsureArticle
    \/ ListFiles
    \/ NextModel
    \/ ProcessFile
    \/ SaveModel
    \/ EndTask
    \/ MainReturn
    \/ RemoteCallFails

Spec == Init /\ [][Next]_vars

----------------------------------------------------------------------------
(* Helpers of the properties *)
MutatingOps == {"create_article", "upload_file_if_needed", "write"}
InFileStep  == pc = "file" /\ keyIdx <= Len(fileKeys)
CurKeyPath  == fileKeys[keyIdx].key
CurFilePath == FilePath(fileKeys[keyIdx].val)
CurFileName == FileName(CurFilePath)
CurMetricData == MetricData(model_data, CurTask).d
Logged(bucket) == Outcome(CurTask, CurModel, CurKeyPath, CurFileName, bucket)
Registered(task) ==
    ARTICLE_IDS[task] # Nothing /\ article_exists(remote, ARTICLE_IDS[task][1])
SecondExecuteRun ==
    /\ pc = "done" /\ ~args.dry_run /\ ~args.force_reupload
    /\ prev.ok /\ prev.args = args
Settled ==
    /\ \A o \in outcomes : o.bucket \in {"skipped", "missing"}
    /\ disk = disk0
    /\ remote = remote0

(* C1: a run with dry_run = TRUE makes no create_article call, no          *)
(* upload_file_if_needed call and no write of a metadata document; the     *)
(* remote and the persisted documents stay as they were at its start.      *)
C1_DryRunNeverMutates ==
    args.dry_run =>
        /\ \A c \in calls : c.op \notin MutatingOps
        /\ remote = remote0
        /\ disk = disk0

(* a dry run that ended, had no usable article and went over an artifact *)
C1_Witness ==
    /\ pc = "done" /\ args.dry_run
    /\ \E o \in outcomes : o.bucket = "none" /\ ~Registered(o.task)

(* C2 as stated: the second of two execute runs without force skips every *)
(* artifact whose file exists and leaves trees and remote as they were.    *)
C2_Idempotence_AsStated == SecondExecuteRun => Settled

(* C2 amended: the same, for runs in which every requested task has a      *)
(* registered article that exists on the remote.                           *)
C2_Idempotence ==
    (SecondExecuteRun /\ \A i \in 1..Len(args.tasks) : Registered(args.tasks[i]))
        => Settled

(* the first run uploaded, the second one skipped *)
C2_Witness ==
    /\ SecondExecuteRun /\ prev.uploads
    /\ \A i \in 1..Len(args.tasks) : Registered(args.tasks[i])
    /\ \E o \in outcomes : o.bucket = "skipped"


(* C3 as stated: when the point-match reports a match and the locator slot *)
(* of the key-path already holds a value, the skip leaves that value as it *)
(* is, at any nesting depth of the key-path.                               *)
C3_BackfillKeepsLocator ==
    [][ ( /\ InFileStep
          /\ Logged("skipped") \in outcomes'
          /\ LocatorSlot(CurMetricData, CurKeyPath) # Absent )
        => LocatorSlot(MetricData(model_data', CurTask).d, CurKeyPath)
             = LocatorSlot(CurMetricData, CurKeyPath) ]_vars

(* C4 as stated: within a run of a task no file name is in more than one   *)
(* of the buckets skipped, updated and created.                            *)
C4_OneBucketPerPath ==
    /\ DOMAIN skipped_files \cap DOMAIN updated_files = {}
    /\ DOMAIN skipped_files \cap DOMAIN new_files = {}
    /\ DOMAIN updated_files \cap DOMAIN new_files = {}

(* the step of an execute run with force that handles an artifact whose    *)
(* remote file of the same name has the same content as the local file     *)
ForcedOnIdentical ==
    /\ InFileStep /\ args.force_reupload /\ ~args.dry_run
    /\ isfile(fs, CurFilePath)
    /\ \E f \in FilesOf(remote, article_id[1]) :
          f.name = CurFileName /\ f.hash = fs[CurFilePath]
    /\ pc' = "file"

Reuploaded ==
    /\ Call("upload_file_if_needed", CurTask, CurModel, CurKeyPath, TRUE) \in calls'
    /\ RemoteFile(CurFileName, nextId, fs[CurFilePath]) \in FilesOf(remote', article_id[1])
    /\ Logged("skipped") \notin outcomes'

(* C5 as stated: with force, an artifact identical to its remote file is   *)
(* uploaded again and its outcome is updated.                              *)
C5_ForceUpdates_AsStated ==
    [][ ForcedOnIdentical =>
          /\ Reuploaded
          /\ Logged("updated") \in outcomes'
          /\ CurFileName \in DOMAIN updated_files' ]_vars

(* C5 amended: with force, an artifact identical to its remote file is     *)
(* uploaded again and never skipped; its outcome is updated when a file of *)
(* that name is in the listing fetched at the start of the task, and       *)
(* created otherwise.                                                      *)
C5_ForceReuploads ==
    [][ ForcedOnIdentical =>
          /\ Reuploaded
          /\ IF NameIn(CurFileName, existing_files)
             THEN Logged("updated") \in outcomes' /\ CurFileName \in DOMAIN updated_files'
             ELSE Logged("created") \in outcomes' /\ CurFileName \in DOMAIN new_files' ]_vars

(* a forced run replaced a remote file that had the content of the local one *)
C5_Witness ==
    /\ args.force_reupload /\ ~args.dry_run /\ pc = "done"
    /\ \E o \in outcomes : /\ o.bucket = "updated"
                           /\ isfile(fs, FilePath(o.name))
                           /\ \E a \in DOMAIN remote0 : \E f \in remote0[a] :
                                 /\ f.name = o.name /\ f.hash = fs[FilePath(o.name)]
                                 /\ f \notin remote[a]

(* C6: an article never holds two remote files of the same name.           *)
C6_OneFilePerName ==
    \A a \in DOMAIN remote : \A f, g \in remote[a] : f.name = g.name => f = g

(* an upload replaced a file of the same name *)
C6_Witness ==
    \E a \in DOMAIN remote0 : \E f \in remote0[a] : \E g \in remote[a] :
        f.name = g.name /\ f.id # g.id

(* C7 as stated: a document is written only in execute mode and only if    *)
(* its in-memory tree was changed by the reconciliation of the model.      *)
C7_WriteOnlyIfMutated ==
    \A c \in calls : c.op = "write" => (c.changed /\ ~args.dry_run)


(* the artifact at the current position has no local file *)
MissingCase == InFileStep /\ ~isfile(fs, CurFilePath)

(* every artifact the walker finds in the documents of the requested       *)
(* models has been gone over when main returns                             *)
AllArtifactsVisited ==
    pc = "done" =>
      \A i \in 1..Len(args.tasks) : \A j \in 1..Len(args.models) :
        LET metric_data == MetricData(disk0[args.models[j]], args.tasks[i])
            found == IF disk0[args.models[j]].exists /\ metric_data.t = "dict"
                     THEN find_file_keys(metric_data.d, <<>>, args.file_type)
                     ELSE <<>>
        IN \A k \in 1..Len(found) :
             \E o \in outcomes : /\ o.task = args.tasks[i]
                                 /\ o.model = args.models[j]
                                 /\ o.key = found[k].key

(* C8: an artifact whose local file is missing causes no remote call, goes *)
(* into no bucket, leaves the tree alone and the loop moves on to the next *)
(* artifact; the run still goes over every artifact of every model.        *)
C8_MissingFileSkipped ==
    /\ [][ MissingCase =>
             /\ calls' = calls /\ remote' = remote /\ disk' = disk
             /\ UNCHANGED buckets
             /\ CurFileName \notin
                  (DOMAIN skipped_files \cup DOMAIN updated_files \cup DOMAIN new_files)
             /\ model_data' = model_data
             /\ pc' = "file" /\ keyIdx' = keyIdx + 1
             /\ modelIdx' = modelIdx /\ taskIdx' = taskIdx /\ exc' = exc ]_vars
    /\ []AllArtifactsVisited

(* a run that met a missing file and still uploaded another artifact of    *)
(* the same model and went on to the end                                   *)
C8_Witness ==
    /\ pc = "done"
    /\ \E o1, o2 \in outcomes :
          /\ o1.bucket = "missing" /\ o2.bucket \in {"created", "updated", "skipped"}
          /\ o1.task = o2.task /\ o1.model = o2.model

(* C9 as stated: after a failed remote call no operation of a later task   *)
(* was performed, main does not return 0 and the propagated failure        *)
(* carries the current task, the current model and both requested lists.   *)
C9_FailureCarriesContext ==
    (pc = "raised" /\ exc.kind = "TransportError") =>
        /\ \A c \in calls : \E i \in 1..taskIdx : args.tasks[i] = c.task
        /\ exc.task = Some(CurTask)
        /\ exc.models_to_update = Some(args.models)
        /\ exc.tasks_to_update = Some(args.tasks)
        /\ (exc.at = "file" => exc.model_name = Some(CurModel))

(* the tree the walker has gone over, as loaded and as updated since *)
TreesInState ==
    IF pc = "file"
    THEN {CurMetricData, MetricData(disk[CurModel], CurTask).d}
    ELSE {}

Pairs(tree, file_type) ==
    LET found == find_file_keys(tree, <<>>, file_type)
    IN {found[i] : i \in 1..Len(found)}

(* what is returned is a string leaf of the tree under a key ending in _file *)
OnlyFileLeaves(tree) ==
    \A file_type \in FileTypes : \A e \in Pairs(tree, file_type) :
        /\ EndsWith(Last(Split(e.key)), FILE_SUFFIX)
        /\ Lookup(tree, Split(e.key)) = Str(e.val)

(* C10 as stated: on the tree the walker has just gone over, the walk with *)
(* "pred" returns a strict subset of the walk with "all", and only leaves  *)
(* whose key ends in _file are returned.                                   *)
C10_FilterStrictSubset ==
    \A tree \in {MetricData(model_data, CurTask).d : x \in {y \in {pc} : y = "file"}} :
        /\ Pairs(tree, FT_pred) \subseteq Pairs(tree, FT_all)
        /\ Pairs(tree, FT_pred) # Pairs(tree, FT_all)
        /\ OnlyFileLeaves(tree)

(* C10 amended: the walk with "pred" returns a subset (not necessarily a   *)
(* strict one) of the walk with "all", and only leaves whose key ends in   *)
(* _file are returned under any file_type.                                 *)
C10_FilterSubset ==
    \A tree \in TreesInState :
        /\ Pairs(tree, FT_pred) \subseteq Pairs(tree, FT_all)
        /\ OnlyFileLeaves(tree)

(* the walker ran with "pred" on a tree and left out a leaf "all" returns  *)
C10_Witness ==
    /\ pc = "file" /\ args.file_type = FT_pred
    /\ fileKeys # <<>>
    /\ fileKeys = find_file_keys(CurMetricData, <<>>, FT_pred)
    /\ Len(find_file_keys(CurMetricData, <<>>, FT_all)) > Len(fileKeys)


(* the URL the code builds for a remote file id, written out *)
UrlOf(file_id) == DOWNLOAD_URL_PREFIX \o SLASH \o IntToStr(file_id)

(* the remote files of the current article that match the current artifact *)
Matches ==
    {f \in FilesOf(remote, article_id[1]) :
        f.name = CurFileName /\ f.hash = fs[CurFilePath]}

(* the loop body handles, in execute mode without force, an artifact for   *)
(* which the point-match reports a match                                   *)
MatchedStep ==
    /\ InFileStep /\ ~args.force_reupload /\ ~args.dry_run
    /\ isfile(fs, CurFilePath)
    /\ Matches # {}
    /\ calls' # calls

(* C11: in execute mode without force, an artifact for which the point-    *)
(* match reports a match is not passed to upload_file_if_needed in that    *)
(* step and is recorded as skipped with download-prefix/{id of the         *)
(* existing remote file}.                                                  *)
C11_MatchIsSkipped ==
    [][ MatchedStep =>
          /\ Call("upload_file_if_needed", CurTask, CurModel, CurKeyPath, TRUE) \notin calls'
          /\ remote' = remote /\ nextId' = nextId
          /\ Logged("skipped") \in outcomes'
          /\ CurFileName \in DOMAIN skipped_files'
          /\ \A f \in Matches : skipped_files'[CurFileName] = UrlOf(f.id)
          /\ UNCHANGED <<updated_files, new_files>> ]_vars

(* an artifact was skipped on a match with a file the remote already had   *)
(* when the run started                                                    *)
C11_Witness ==
    /\ ~args.force_reupload /\ ~args.dry_run /\ pc = "file"
    /\ \E o \in outcomes :
          /\ o.bucket = "skipped" /\ o.task = CurTask
          /\ o.name \in DOMAIN skipped_files
          /\ \E f \in FilesOf(remote0, article_id[1]) :
                f.name = o.name /\ skipped_files[o.name] = UrlOf(f.id)

(* the loop body uploads the current artifact *)
UploadStep ==
    /\ InFileStep
    /\ Call("upload_file_if_needed", CurTask, CurModel, CurKeyPath, TRUE) \in calls'
    /\ calls' # calls

(* C12: an uploaded artifact is recorded as updated exactly when a file of *)
(* its name is in the listing fetched once at the start of the task, and   *)
(* as created otherwise, whatever the remote holds at the upload.          *)
C12_BucketByListing ==
    /\ [][ UploadStep =>
             IF \E f \in existing_files : f.name = CurFileName
             THEN /\ Logged("updated") \in outcomes'
                  /\ CurFileName \in DOMAIN updated_files'
                  /\ new_files' = new_files
             ELSE /\ Logged("created") \in outcomes'
                  /\ CurFileName \in DOMAIN new_files'
                  /\ updated_files' = updated_files ]_vars
    /\ [][ (pc \in {"model", "file"}) => (existing_files' = existing_files) ]_vars

(* the same name was recorded as created twice in one task: at the second  *)
(* upload the remote held a file of that name                              *)
C12_Witness ==
    /\ pc = "file"
    /\ \E o1, o2 \in outcomes :
          /\ o1 # o2 /\ o1.task = CurTask /\ o2.task = CurTask
          /\ o1.name = o2.name
          /\ o1.bucket = "created" /\ o2.bucket = "created"
          /\ \E f \in FilesOf(remote, article_id[1]) : f.name = o1.name

(* C13 as stated: whenever an artifact is uploaded in execute mode, the    *)
(* locator slot of its key-path is set to download-prefix/{id returned by  *)
(* the upload}, whatever the slot held before.                             *)
C13_UploadSetsLocator ==
    [][ UploadStep =>
          \A f \in FilesOf(remote', article_id[1]) :
             f.name = CurFileName =>
                LocatorSlot(MetricData(model_data', CurTask).d, CurKeyPath)
                  = Str(UrlOf(f.id)) ]_vars


(* every node of a tree with the list of keys that leads to it *)
RECURSIVE Flat(_, _)
Flat(d, prefix) ==
    UNION { LET p == Append(prefix, d[i].key) IN
            IF d[i].val.t = "dict"
            THEN {[path |-> p, t |-> "dict", s |-> <<>>]} \cup Flat(d[i].val.d, p)
            ELSE {[path |-> p, t |-> d[i].val.t, s |-> d[i].val.s]}
          : i \in 1..Len(d) }

IsPrefix(p, q) == Len(p) <= Len(q) /\ SubSeq(q, 1, Len(p)) = p

(* the path of the locator slot of the current key-path: the keys of the   *)
(* mapping that holds the leaf, then the leaf's key followed by _url       *)
CurSlotPath ==
    LET pieces == Split(CurKeyPath)
    IN Append(Front(pieces), Last(pieces) \o URL_SUFFIX)

(* the nodes of a tree outside / at or below the slot *)
Outside(tree, slot) == {e \in Flat(tree, <<>>) : ~IsPrefix(slot, e.path)}
Within(tree, slot)  == {e \in Flat(tree, <<>>) : IsPrefix(slot, e.path)}

FailedInModel ==
    /\ pc = "raised" /\ exc.kind = "TransportError" /\ exc.at = "file"
    /\ ~args.dry_run

(* the models before the current one that were loaded for the current      *)
(* task have been written, with a changed tree if they had an upload       *)
EarlierModelsSaved ==
    \A j \in 1..(modelIdx - 1) :
        LET m == args.models[j] IN
        (disk[m].exists /\ IsMapping(MetricData(disk[m], CurTask))) =>
            \E c \in calls :
               /\ c.op = "write" /\ c.task = CurTask /\ c.model = m
               /\ (\E o \in outcomes : /\ o.task = CurTask /\ o.model = m
                                       /\ o.bucket \in {"created", "updated"})
                    => c.changed

(* C15 as stated: after a failed remote call the persisted document of the *)
(* current model is as at the start of the run, and the models processed   *)
(* before it in the task have been persisted.                              *)
C15_FailureKeepsDisk_AsStated ==
    FailedInModel =>
        /\ disk[CurModel] = disk0[CurModel]
        /\ EarlierModelsSaved

(* C15 amended: after a failed remote call the persisted document of the   *)
(* current model is as it was when the model was loaded for the current    *)
(* task: it was not written in this task and its section for the task is   *)
(* as at the start of the run (it may hold what earlier tasks of the run   *)
(* persisted); the models processed before it in the task have been        *)
(* persisted.                                                              *)
C15_FailureKeepsDisk ==
    FailedInModel =>
        /\ \A c \in calls : ~(c.op = "write" /\ c.task = CurTask /\ c.model = CurModel)
        /\ disk[CurModel].metrics[CurTask] = disk0[CurModel].metrics[CurTask]
        /\ \A t \in Tasks \ {CurTask} :
              disk[CurModel].metrics[t] = model_data.metrics[t]
        /\ EarlierModelsSaved

(* the call failed after the current model had an in-memory update, and an *)
(* earlier model of the task had been saved with an upload                 *)
C15_Witness ==
    /\ FailedInModel
    /\ model_data # disk[CurModel]
    /\ \E o \in outcomes : \E j \in 1..(modelIdx - 1) :
          /\ o.task = CurTask /\ o.model = args.models[j]
          /\ o.bucket \in {"created", "updated"}


(* the calls of a task that work on its article *)
ArticleUses(task) ==
    {c \in calls : c.task = task /\ c.op \in {"get_existing_files",
                     "file_exists_with_same_hash", "upload_file_if_needed"}}

Created(task) == Call("create_article", task, None, <<>>, TRUE) \in calls

(* C16: an article is created only in the step of lines 118-128, exactly   *)
(* when the run is not a dry run and the registered id is absent or not    *)
(* found; at most once per task and run; before the listing and before any *)
(* point-match or upload of the task, which all use the new id.  A dry run *)
(* without a usable id takes the placeholder 0 and creates nothing.        *)
C16_CreateOnceBeforeUse ==
    /\ [][ (DOMAIN remote' # DOMAIN remote) =>
             /\ pc = "ensure"
             /\ DOMAIN remote' = DOMAIN remote \cup {nextId}
             /\ nextId \notin DOMAIN remote
             /\ article_id' = Some(nextId)
             /\ ArticleUses(CurTask) = {} ]_vars
    /\ [][ (pc = "ensure" /\ pc' = "list") =>
             ((DOMAIN remote' # DOMAIN remote)
                <=> (~args.dry_run /\ ~Registered(CurTask))) ]_vars
    /\ [][ (pc \in {"list", "model", "file"}) =>
             /\ article_id' = article_id
             /\ \A a \in DOMAIN remote : a # article_id[1] => remote'[a] = remote[a] ]_vars
    /\ [][ (pc = "list" /\ pc' = "model") =>
             existing_files' = FilesOf(remote, article_id[1]) ]_vars
    /\ [](Cardinality(DOMAIN remote \ DOMAIN remote0)
             <= Cardinality({t \in Tasks : Created(t)}))
    /\ []((pc \in {"list", "model", "file"} /\ ~args.dry_run) =>
             /\ article_id[1] \in DOMAIN remote
             /\ Created(CurTask) <=> article_id[1] \notin DOMAIN remote0)
    /\ []((pc \in {"list", "model", "file"} /\ args.dry_run /\ ~Registered(CurTask)) =>
             /\ article_id = Some(0)
             /\ ~Created(CurTask))

(* an article was created for the task and a file was uploaded into it *)
C16_Witness ==
    /\ pc = "file" /\ ~args.dry_run
    /\ Created(CurTask)
    /\ article_id[1] \notin DOMAIN remote0
    /\ remote[article_id[1]] # {}

(* C17 as stated: when the task of a dry run is reported, every artifact   *)
(* whose local file exists has a report entry (the report lists the three  *)
(* buckets).                                                               *)
C17_DryRunReports ==
    (args.dry_run /\ pc = "model" /\ modelIdx > Len(args.models)) =>
        \A o \in outcomes :
            (o.task = CurTask /\ o.bucket # "missing") =>
                o.name \in (DOMAIN skipped_files \cup DOMAIN updated_files
                                \cup DOMAIN new_files)

(* C18 as stated: when the task of an execute run is reported, every       *)
(* artifact whose local file exists is in a bucket and its locator slot in *)
(* the model's tree is present.                                            *)
C18_EveryArtifactLocated ==
    (~args.dry_run /\ pc = "model" /\ modelIdx > Len(args.models)) =>
        \A o \in outcomes :
            (o.task = CurTask /\ o.bucket # "missing") =>
                /\ o.name \in (DOMAIN skipped_files \cup DOMAIN updated_files
                                   \cup DOMAIN new_files)
                /\ LocatorSlot(MetricData(disk[o.model], CurTask).d, o.key) # Absent

(* C19 as stated: while the artifacts of a model are processed, the walk   *)
(* of the in-memory tree returns, for every file_type, what the walk of    *)
(* the tree as loaded returns.                                             *)
C19_WriteKeepsWalk ==
    pc = "file" =>
        \A file_type \in FileTypes :
            find_file_keys(CurMetricData, <<>>, file_type)
              = find_file_keys(MetricData(disk[CurModel], CurTask).d, <<>>, file_type)

(* the model at the current position has no document or no mapping for the *)
(* current task                                                            *)
NotLoadable(m, task, d) == ~d[m].exists \/ MetricData(d[m], task).t # "dict"

SkippedModelCase ==
    /\ pc = "model" /\ modelIdx <= Len(args.models)
    /\ NotLoadable(CurModel, CurTask, disk)

(* C20: a model without a document, or whose section for the task is not a *)
(* mapping, is passed over with no remote call, no outcome and no write,   *)
(* in either mode, and the loop goes on to the next model; its document is *)
(* never written, and the run still goes over every artifact of the others.*)
C20_UnloadableModelSkipped ==
    /\ [][ SkippedModelCase =>
             /\ calls' = calls /\ remote' = remote /\ disk' = disk
             /\ outcomes' = outcomes
             /\ UNCHANGED buckets
             /\ pc' = "model" /\ modelIdx' = modelIdx + 1
             /\ taskIdx' = taskIdx /\ exc' = exc ]_vars
    /\ [](\A c \in calls : c.op = "write" => ~NotLoadable(c.model, c.task, disk0))
    /\ [](\A o \in outcomes : ~NotLoadable(o.model, o.task, disk0))
    /\ []AllArtifactsVisited

(* the first model of the list was passed over and the next one was        *)
(* processed, in a run that returned                                       *)
C20_Witness ==
    /\ pc = "done" /\ Len(args.models) > 1
    /\ \E i \in 1..Len(args.tasks) :
          /\ NotLoadable(args.models[1], args.tasks[i], disk0)
          /\ \E o \in outcomes :
                /\ o.task = args.tasks[i] /\ o.model = args.models[2]
                /\ o.bucket # "missing"

====
